---- MODULE Spec2Model ----
(***************************************************************************)
(* Model of stack.py: the Layer / MetaLayer / NonMetaLayer classes and the *)
(* Stack orchestrator (create_propagator, create_interface,                *)
(* create_interface_rot, build).                                           *)
(*                                                                         *)
(* Objects live on a heap (a sequence of instance dictionaries; a          *)
(* reference is an index).  List objects live on a second heap, so that    *)
(* the aliasing between the caller's list and Stack.layer_list is visible. *)
(* Matrices are kept by their entries where the source computes entries    *)
(* with field arithmetic (the interface matrix, as exact fractions) and    *)
(* symbolically where it calls exp() or the star_product /                 *)
(* smat_oparations modules.                                                *)
(***************************************************************************)
EXTENDS Integers, Sequences, FiniteSets, TLC

VARIABLES
    heap,      \* layer objects: heap[r] is the instance dictionary of reference r
    lists,     \* list objects: lists[k] is a sequence of layer references
    stack,     \* the Stack object, or NoStack before Stack(...) is called
    builds,    \* number of build() calls made so far
    last,      \* what the last build() call did (locals at its end, outcome)
    called,    \* per user layer: which mutators have been called, last rotate argument
    orig,      \* the user layers as constructed
    args,      \* arguments of a pending NonMetaLayer(...) call
    new        \* outcome of the NonMetaLayer(...) call

vars == <<heap, lists, stack, builds, last, called, orig, args, new>>

----------------------------------------------------------------------------
(* Bounds *)

MaxLayers == 2      \* user layers in the list handed to Stack
MaxBuilds == 2      \* build() calls on the one Stack
MaxVecs == 3        \* index vectors passed to NonMetaLayer(height, *n_vec)

Indices == {1, 2}           \* refractive indices (one wavelength)
Angles == {0, 1}            \* arguments of rotate()
WavVec == <<1>>             \* the wavelength sweep

----------------------------------------------------------------------------
(* Values *)

\* Python None as a height; np.size(None) is 1
NoneHeight == [none |-> TRUE, dims |-> 0, vals |-> <<>>]

\* a scalar height h
Scalar(h) == [none |-> FALSE, dims |-> 0, vals |-> <<h>>]

\* a one-dimensional array of heights
Vector(hs) == [none |-> FALSE, dims |-> 1, vals |-> hs]

\* np.size(height)
np_size(height) == IF height.none THEN 1 ELSE Len(height.vals)

\* np.array([height]): one more array dimension around the same values
np_array_of(height) == [height EXCEPT !.dims = @ + 1]

\* the result of a call: a value, or the exception that left it
Return(v) == [exc |-> "none", val |-> v]
Raise(e) == [exc |-> e, val |-> <<>>]

NoStack == [layer_list |-> 0]

\* attribute lookup on an instance dictionary
HasAttr(obj, a) == a \in DOMAIN obj

\* type(obj) is C
TypeIs(obj, C) == obj.cls = C

----------------------------------------------------------------------------
(* class Layer *)

Layer_init(cls) ==
    [cls |-> cls, mirror_bool |-> FALSE, flip_bool |-> FALSE, angle |-> 0]

flip(self) == [self EXCEPT !.flip_bool = TRUE]

mirror(self) == [self EXCEPT !.mirror_bool = TRUE]

\* a rotate that accumulates the angle instead of replacing it
rotate_cumulative(self, angle) == [self EXCEPT !.angle = @ + angle]

rotate(self, angle) == [self EXCEPT !.angle = angle]

(* class MetaLayer(Layer); cls is the class instantiated (MetaLayer itself *)
(* or a subclass that inherits __init__)                                   *)
MetaLayer_init(cls, s_mat, cladding, substrate) ==
    Layer_init(cls) @@
    [s_mat |-> s_mat, cladding |-> cladding, substrate |-> substrate]

(* class NonMetaLayer(Layer): the attributes are assigned in source order, *)
(* so n_vec[0] is read before the count of vectors is looked at            *)
NonMetaLayer_init(cls, height, n_vec) ==
    LET self0 == Layer_init(cls) @@
                 [height |-> height, height_len |-> np_size(height)]
    IN  IF Len(n_vec) = 0 THEN Raise("IndexError")
        ELSE LET self1 == self0 @@ [n_x |-> n_vec[1]]
             IN  IF Len(n_vec) = 1 THEN Return(self1 @@ [n_y |-> self1.n_x])
                 ELSE IF Len(n_vec) = 2 THEN Return(self1 @@ [n_y |-> n_vec[2]])
                 ELSE Raise("ValueError")

----------------------------------------------------------------------------
(* NonMetaLayer(height, *n_vec) as a call on its own *)

RECURSIVE SeqsUpTo(_, _)
SeqsUpTo(S, n) ==
    IF n = 0 THEN {<<>>}
    ELSE LET shorter == SeqsUpTo(S, n - 1)
         IN  shorter \cup {Append(s, x) : s \in {t \in shorter : Len(t) = n - 1}, x \in S}

CtorHeights == {NoneHeight, Scalar(0), Scalar(1), Vector(<<1, 2>>)}

Pending == Raise("pending")

InitCtor ==
    /\ args \in [height : CtorHeights, n_vec : SeqsUpTo(Indices, MaxVecs)]
    /\ new = Pending
    /\ heap = <<>>
    /\ lists = <<>>
    /\ stack = NoStack
    /\ builds = 0
    /\ last = <<>>
    /\ called = <<>>
    /\ orig = <<>>

Construct ==
    /\ new.exc = "pending"
    /\ new' = NonMetaLayer_init("NonMetaLayer", args.height, args.n_vec)
    /\ heap' = IF new'.exc = "none" THEN Append(heap, new'.val) ELSE heap
    /\ UNCHANGED <<lists, stack, builds, last, called, orig, args>>

NextCtor == Construct

SpecCtor == InitCtor /\ [][NextCtor]_vars

----------------------------------------------------------------------------
(* smat_oparations / star_product: the transforms and the star product are *)
(* kept symbolic: a transformed matrix remembers, in order, the transforms *)
(* applied to it; a product remembers its operands in order                *)

array_mirror_smat(s_mat) ==
    [s_mat EXCEPT !.ops = Append(@, [op |-> "mirror", angle |-> 0])]

array_flip_smat(s_mat) ==
    [s_mat EXCEPT !.ops = Append(@, [op |-> "flip", angle |-> 0])]

array_rot_smat(s_mat, angle) ==
    [s_mat EXCEPT !.ops = Append(@, [op |-> "rot", angle |-> angle])]

starProductanalyt(s_front, s_back) ==
    [kind |-> "star", front |-> s_front, back |-> s_back, ops |-> <<>>]

starProduct_Cascaded(s_mat_list) ==
    [kind |-> "cascade", items |-> s_mat_list, ops |-> <<>>]

----------------------------------------------------------------------------
(* class Stack *)

\* a constructor that stores a copy of the list it is given
Stack_init_copy(ls, layer_list, wav_vec, cladding, substrate) ==
    [lists |-> Append(ls, ls[layer_list]),
     self  |-> [layer_list |-> Len(ls) + 1, cladding |-> cladding,
                substrate |-> substrate, wav_vec |-> wav_vec,
                wav_vec_len |-> Len(wav_vec)]]

\* Stack.__init__: the list reference is stored, the list heap is untouched
Stack_init(ls, layer_list, wav_vec, cladding, substrate) ==
    [lists |-> ls,
     self  |-> [layer_list |-> layer_list, cladding |-> cladding,
                substrate |-> substrate, wav_vec |-> wav_vec,
                wav_vec_len |-> Len(wav_vec)]]

\* symmetry operations applied flip first, then mirror
apply_symmetry_flip_first(layer, s_mat) ==
    LET m1 == IF layer.flip_bool THEN array_flip_smat(s_mat) ELSE s_mat
        m2 == IF layer.mirror_bool THEN array_mirror_smat(m1) ELSE m1
    IN  IF layer.angle # 0 THEN array_rot_smat(m2, layer.angle) ELSE m2

\* the symmetry operations at the end of create_propagator
apply_symmetry(layer, s_mat) ==
    LET m1 == IF layer.mirror_bool THEN array_mirror_smat(s_mat) ELSE s_mat
        m2 == IF layer.flip_bool THEN array_flip_smat(m1) ELSE m1
    IN  IF layer.angle # 0 THEN array_rot_smat(m2, layer.angle) ELSE m2

\* Stack.create_propagator(layer); h is the object heap, r the reference
create_propagator(self, h, r) ==
    LET layer == h[r] IN
    IF TypeIs(layer, "NonMetaLayer") THEN
        LET h1 == IF layer.height_len = 1
                  THEN [h EXCEPT ![r].height = np_array_of(@)]
                  ELSE h
            l1 == h1[r]
        IN  IF l1.height_len = 0
            THEN [exc |-> "UnboundLocalError", val |-> <<>>, heap |-> h1]
            ELSE IF l1.height.none
            THEN [exc |-> "TypeError", val |-> <<>>, heap |-> h1]
            ELSE [exc |-> "none", heap |-> h1,
                  val |-> apply_symmetry(l1,
                            [kind |-> "propagator", layer |-> r,
                             n_x |-> l1.n_x, n_y |-> l1.n_y,
                             height |-> l1.height.vals,
                             wav_vec |-> self.wav_vec, ops |-> <<>>])]
    ELSE IF TypeIs(layer, "MetaLayer") THEN
        [exc |-> "none", heap |-> h,
         val |-> apply_symmetry(layer,
                   [kind |-> "meta", layer |-> r, s_mat |-> layer.s_mat,
                    ops |-> <<>>])]
    ELSE [exc |-> "ValueError", val |-> <<>>, heap |-> h]

\* create_interface, "load n_* from the Layers": the indices taken from l_1
n1_of(l_1) ==
    IF TypeIs(l_1, "NonMetaLayer") THEN Return(<<l_1.n_x, l_1.n_y>>)
    ELSE IF HasAttr(l_1, "substrate") THEN Return(<<l_1.substrate, l_1.substrate>>)
    ELSE Raise("AttributeError")

\* and from l_2
n2_of(l_2) ==
    IF TypeIs(l_2, "NonMetaLayer") THEN Return(<<l_2.n_x, l_2.n_y>>)
    ELSE IF HasAttr(l_2, "cladding") THEN Return(<<l_2.cladding, l_2.cladding>>)
    ELSE Raise("AttributeError")

\* an exact fraction num/den
Frac(num, den) == <<num, den>>

FracEq(a, b) == a[1] * b[2] = b[1] * a[2]

\* Stack.create_interface(l_2, l_1): the first parameter is l_2
create_interface(self, h, l_2, l_1) ==
    LET n1 == n1_of(h[l_1]) IN
    IF n1.exc # "none" THEN Raise(n1.exc)
    ELSE LET n2 == n2_of(h[l_2]) IN
    IF n2.exc # "none" THEN Raise(n2.exc)
    ELSE LET n1_x == n1.val[1]
             n1_y == n1.val[2]
             n2_x == n2.val[1]
             n2_y == n2.val[2]
         IN  Return([kind |-> "interface", l_2 |-> l_2, l_1 |-> l_1,
                     n1 |-> n1.val, n2 |-> n2.val,
                     e00 |-> Frac(2 * n1_x, n1_x + n2_x),
                     e11 |-> Frac(2 * n1_y, n1_y + n2_y),
                     e22 |-> Frac(2 * n2_x, n1_x + n2_x),
                     e33 |-> Frac(2 * n2_y, n1_y + n2_y),
                     e02 |-> Frac(n1_x - n2_x, n1_x + n2_x),
                     e13 |-> Frac(n1_y - n2_y, n1_y + n2_y),
                     e20 |-> Frac((-1) * (n1_x - n2_x), n1_x + n2_x),
                     e31 |-> Frac((-1) * (n1_y - n2_y), n1_y + n2_y),
                     ops |-> <<>>])

\* Stack.create_interface_rot(l_2, l_1); the vacuum layer is a new object
create_interface_rot(self, h, l_2, l_1) ==
    LET h1 == Append(h, NonMetaLayer_init("NonMetaLayer", Scalar(0), <<1>>).val)
        vacuum_layer == Len(h1)
        s_mat1 == create_interface(self, h1, vacuum_layer, l_2)
    IN  IF s_mat1.exc # "none" THEN [exc |-> s_mat1.exc, val |-> <<>>, heap |-> h1]
        ELSE LET s_mat2 == create_interface(self, h1, l_1, vacuum_layer) IN
        IF s_mat2.exc # "none" THEN [exc |-> s_mat2.exc, val |-> <<>>, heap |-> h1]
        ELSE [exc |-> "none", heap |-> h1,
              val |-> starProductanalyt(array_rot_smat(s_mat1.val, h1[l_2].angle),
                                        array_rot_smat(s_mat2.val, h1[l_1].angle))]

\* build(): the choice between the two interface constructions in the loop
loop_interface(self, h, current_layer, next_layer) ==
    IF (h[current_layer].angle # 0) \/ (h[next_layer].angle # 0)
    THEN create_interface_rot(self, h, current_layer, next_layer)
    ELSE LET inter == create_interface(self, h, current_layer, next_layer)
         IN  [exc |-> inter.exc, val |-> inter.val, heap |-> h]

\* what a build() call leaves behind: the exception (or "none"), the heap,
\* the local s_mat_list, the layers create_propagator was called with, and
\* the value returned
BuildEnd(exc, h, s_mat_list, prop_calls) ==
    [exc |-> exc, heap |-> h, s_mat_list |-> s_mat_list,
     prop_calls |-> prop_calls,
     ret |-> IF exc = "none" THEN starProduct_Cascaded(s_mat_list)
             ELSE starProduct_Cascaded(<<>>)]

\* a loop body that appends the interface before the propagator
loop_append_swapped(s_mat_list, prop, inter) == s_mat_list \o <<inter, prop>>

\* build(): the loop body, one iteration appending propagator then interface
loop_append(s_mat_list, prop, inter) == s_mat_list \o <<prop, inter>>

\* build(): for i in range(len(self.layer_list) - 1), i counted from 1 here
RECURSIVE build_loop(_, _, _, _, _, _)
build_loop(self, h, layer_list, i, s_mat_list, prop_calls) ==
    IF i > Len(layer_list) - 1 THEN BuildEnd("none", h, s_mat_list, prop_calls)
    ELSE LET current_layer == layer_list[i]
             next_layer == layer_list[i + 1]
             prop == create_propagator(self, h, current_layer)
             calls == Append(prop_calls, current_layer)
         IN  IF prop.exc # "none"
             THEN BuildEnd(prop.exc, prop.heap, s_mat_list, calls)
             ELSE LET inter == loop_interface(self, prop.heap, current_layer, next_layer)
                  IN  IF inter.exc # "none"
                      THEN BuildEnd(inter.exc, inter.heap, s_mat_list, calls)
                      ELSE build_loop(self, inter.heap, layer_list, i + 1,
                                      loop_append(s_mat_list, prop.val, inter.val),
                                      calls)

\* build(): the interface between the cladding and the first layer
first_interface(self, h, clad_layer, first_layer) ==
    create_interface(self, h, clad_layer, first_layer)

\* build(): self.layer_list.append(subs_layer)
append_substrate(layer_list, subs_layer) == Append(layer_list, subs_layer)

\* Stack.build(); returns the new list heap and the BuildEnd record
build(self, h, ls) ==
    LET h1 == Append(h, NonMetaLayer_init("NonMetaLayer", NoneHeight, <<self.cladding>>).val)
        clad_layer == Len(h1)
        h2 == Append(h1, NonMetaLayer_init("NonMetaLayer", NoneHeight, <<self.substrate>>).val)
        subs_layer == Len(h2)
        ls1 == [ls EXCEPT ![self.layer_list] = append_substrate(@, subs_layer)]
        layer_list == ls1[self.layer_list]
        inter == first_interface(self, h2, clad_layer, layer_list[1])
    IN  [lists |-> ls1,
         clad_layer |-> clad_layer,
         end |-> IF inter.exc # "none" THEN BuildEnd(inter.exc, h2, <<>>, <<>>)
                 ELSE build_loop(self, h2, layer_list, 1, <<inter.val>>, <<>>)]

----------------------------------------------------------------------------
(* The caller: layers are constructed, the list [L1, ..., Ln] is made,     *)
(* symmetry operations are applied, the Stack is constructed over the      *)
(* list and build() is called.                                             *)
(* The layers are one of each kind: an anisotropic NonMetaLayer, a         *)
(* MetaLayer whose cladding and substrate indices differ, a bare Layer and *)
(* an instance of a subclass of each variant.  The symmetry operations are *)
(* applied before the Stack is constructed; cladding and substrate of the  *)
(* Stack are two different media.                                          *)

UserLayers ==
    {NonMetaLayer_init("NonMetaLayer", Scalar(1), <<1, 2>>).val,
     MetaLayer_init("MetaLayer", "S", 1, 2)}
    \cup {Layer_init("Layer"),
          NonMetaLayer_init("SubNonMetaLayer", Scalar(1), <<2>>).val,
          MetaLayer_init("SubMetaLayer", "S", 1, 2)}

NoBuild == [exc |-> "not called"]

NoCalls == [mirror |-> FALSE, flip |-> FALSE, rotate |-> 0]

Init ==
    /\ heap \in SeqsUpTo(UserLayers, MaxLayers)
    /\ lists = << [i \in 1..Len(heap) |-> i] >>
    /\ stack = NoStack
    /\ builds = 0
    /\ last = NoBuild
    /\ called = [i \in 1..Len(heap) |-> NoCalls]
    /\ orig = heap
    /\ args = [height |-> NoneHeight, n_vec |-> <<>>]
    /\ new = Pending

Mirror(i) ==
    /\ stack = NoStack
    /\ heap' = [heap EXCEPT ![i] = mirror(@)]
    /\ called' = [called EXCEPT ![i].mirror = TRUE]
    /\ UNCHANGED <<lists, stack, builds, last, orig, args, new>>

Flip(i) ==
    /\ stack = NoStack
    /\ heap' = [heap EXCEPT ![i] = flip(@)]
    /\ called' = [called EXCEPT ![i].flip = TRUE]
    /\ UNCHANGED <<lists, stack, builds, last, orig, args, new>>

Rotate(i, a) ==
    /\ stack = NoStack
    /\ heap' = [heap EXCEPT ![i] = rotate(@, a)]
    /\ called' = [called EXCEPT ![i].rotate = a]
    /\ UNCHANGED <<lists, stack, builds, last, orig, args, new>>

NewStack(cladding, substrate) ==
    /\ stack = NoStack
    /\ LET s == Stack_init(lists, 1, WavVec, cladding, substrate)
       IN  /\ stack' = s.self
           /\ lists' = s.lists
    /\ UNCHANGED <<heap, builds, last, called, orig, args, new>>

Build ==
    /\ stack # NoStack
    /\ builds < MaxBuilds
    /\ LET b == build(stack, heap, lists)
       IN  /\ lists' = b.lists
           /\ heap' = b.end.heap
           /\ last' = [exc |-> b.end.exc, s_mat_list |-> b.end.s_mat_list,
                       prop_calls |-> b.end.prop_calls, ret |-> b.end.ret,
                       clad_layer |-> b.clad_layer]
    /\ builds' = builds + 1
    /\ UNCHANGED <<stack, called, orig, args, new>>

Next ==
    \/ \E i \in 1..Len(orig) : Mirror(i)
    \/ \E i \in 1..Len(orig) : Flip(i)
    \/ \E i \in 1..Len(orig), a \in Angles : Rotate(i, a)
    \/ \E c \in Indices : \E s \in Indices \ {c} : NewStack(c, s)
    \/ Build

Spec == Init /\ [][Next]_vars

----------------------------------------------------------------------------
(* Properties *)

\* references of the layers the caller constructed
UserRefs == 1..Len(orig)

\* one of the two variants the Stack knows
IsVariant(obj) == obj.cls \in {"NonMetaLayer", "MetaLayer"}

\* a cladding or substrate pseudo-layer: a NonMetaLayer whose height is None
IsPseudo(obj) == HasAttr(obj, "height") /\ obj.height.none

\* a layer's local matrix, as create_propagator returns it
IsPropagator(m) == m.kind \in {"propagator", "meta"}

\* the list the Stack works on
WorkList == lists[stack.layer_list]

\* the two media of the interface at (odd) position k of build()'s s_mat_list
Upstream(k) == IF k = 1 THEN last.clad_layer ELSE WorkList[(k - 1) \div 2]
Downstream(k) == WorkList[(k + 1) \div 2]

\* the layers an interface matrix (plain, or the star product of the two
\* auxiliary interfaces against the vacuum layer) was built for
Adjacent(m) ==
    IF m.kind = "interface" THEN {m.l_1, m.l_2}
    ELSE IF m.kind = "star"
    THEN LET F == {m.front.l_1, m.front.l_2}
             B == {m.back.l_1, m.back.l_2}
         IN  (F \cup B) \ (F \cap B)
    ELSE {}

(* C1: NonMetaLayer(height, *n_vec) succeeds exactly when one or two index *)
(* vectors are given (one: n_y = n_x = the vector; two: n_y = the second); *)
(* with any other count, zero included, it fails with the ValueError and   *)
(* no layer object is produced.                                            *)
C1_ConstructionError ==
    new.exc # "pending" =>
        LET k == Len(args.n_vec) IN
        /\ k = 1 => /\ new.exc = "none"
                    /\ new.val.n_x = args.n_vec[1]
                    /\ new.val.n_y = args.n_vec[1]
        /\ k = 2 => /\ new.exc = "none"
                    /\ new.val.n_x = args.n_vec[1]
                    /\ new.val.n_y = args.n_vec[2]
        /\ k \notin {1, 2} => /\ new.exc = "ValueError"
                              /\ heap = <<>>

SymmetryFields == {"mirror_bool", "flip_bool", "angle"}

Optical(obj) == [a \in DOMAIN obj \ SymmetryFields |-> obj[a]]

(* C2: after any sequence of mirror(), flip(), rotate(a) calls a layer's   *)
(* mirror flag is set iff mirror() was called, its flip flag iff flip()    *)
(* was called, its angle is the argument of the last rotate (0 if none),   *)
(* and its optical parameters are as constructed.                          *)
C2_MutatorState ==
    \A i \in UserRefs :
        /\ heap[i].mirror_bool = called[i].mirror
        /\ heap[i].flip_bool = called[i].flip
        /\ heap[i].angle = called[i].rotate
        /\ builds = 0 => Optical(heap[i]) = Optical(orig[i])

W_C2 ==
    \E i \in UserRefs, j \in UserRefs :
        /\ heap[i].cls = "NonMetaLayer"
        /\ called[i] = [mirror |-> TRUE, flip |-> TRUE, rotate |-> 1]
        /\ heap[j].cls = "MetaLayer"
        /\ called[j] = [mirror |-> TRUE, flip |-> FALSE, rotate |-> 1]

(* C3: the Stack works on the caller's list object itself, and after k     *)
(* build() calls, failed ones included, that list is the original layers   *)
(* in their order followed by k distinct substrate pseudo-layers.          *)
C3_BuildAppendsSubstrate ==
    stack # NoStack =>
        LET L == lists[1]
            n == Len(orig)
        IN  /\ stack.layer_list = 1
            /\ Len(L) = n + builds
            /\ \A i \in 1..n : L[i] = i
            /\ \A k \in 1..builds :
                   /\ L[n + k] > n
                   /\ heap[L[n + k]].cls = "NonMetaLayer"
                   /\ IsPseudo(heap[L[n + k]])
                   /\ heap[L[n + k]].n_x = stack.substrate
                   /\ heap[L[n + k]].n_y = stack.substrate
            /\ \A j \in 1..builds, k \in 1..builds :
                   j # k => L[n + j] # L[n + k]

W_C3 ==
    /\ builds = 2
    /\ Len(orig) = 2
    /\ last.exc # "none"
    /\ Len(lists[1]) = 4

(* C4: every plain interface build() constructs has the upstream medium    *)
(* (cladding, resp. current) in the n1 role and the downstream medium      *)
(* (first layer, resp. next) in the n2 role: entry (0,0) is                *)
(* 2*n_up/(n_up+n_down), entry (0,2) is (n_up-n_down)/(n_up+n_down), and   *)
(* likewise in y.  Stated for the interfaces between two NonMetaLayers,    *)
(* whose indices do not depend on the side.                                *)
C4_UpstreamIsN1 ==
    (builds > 0 /\ Len(orig) >= 1) =>
        \A k \in 1..Len(last.s_mat_list) :
            LET m == last.s_mat_list[k]
                up == heap[Upstream(k)]
                dn == heap[Downstream(k)]
            IN  (m.kind = "interface" /\ up.cls = "NonMetaLayer" /\ dn.cls = "NonMetaLayer") =>
                    /\ FracEq(m.e00, Frac(2 * up.n_x, up.n_x + dn.n_x))
                    /\ FracEq(m.e11, Frac(2 * up.n_y, up.n_y + dn.n_y))
                    /\ FracEq(m.e02, Frac(up.n_x - dn.n_x, up.n_x + dn.n_x))
                    /\ FracEq(m.e13, Frac(up.n_y - dn.n_y, up.n_y + dn.n_y))

(* C5: build() on a list holding an object that is neither a NonMetaLayer  *)
(* nor a MetaLayer ends with the ValueError for an unrecognized variant.   *)
C5_UnknownVariantError ==
    (builds > 0 /\ \E i \in UserRefs : ~IsVariant(heap[i])) =>
        last.exc = "ValueError"

(* C6: for n >= 1 user layers the first build() hands the cascade 2n+1     *)
(* matrices: interface(cladding, L1), propagator(L1), interface(L1, L2),   *)
(* ..., propagator(Ln), interface(Ln, substrate).                          *)
C6_CascadeOrder ==
    (builds = 1 /\ last.exc = "none" /\ Len(orig) >= 1) =>
        LET n == Len(orig)
            items == last.ret.items
            L == WorkList
        IN  /\ Len(items) = 2 * n + 1
            /\ Adjacent(items[1]) = {last.clad_layer, L[1]}
            /\ \A i \in 1..n :
                   /\ IsPropagator(items[2 * i])
                   /\ items[2 * i].layer = L[i]
                   /\ L[i] = i
                   /\ Adjacent(items[2 * i + 1]) = {L[i], L[i + 1]}
            /\ IsPseudo(heap[L[n + 1]])

W_C6 ==
    /\ builds = 1
    /\ last.exc = "none"
    /\ Len(orig) = 2
    /\ \E k \in 1..Len(last.ret.items) : last.ret.items[k].kind = "star"
    /\ last.ret.items[5].kind = "interface"

(* C7: every interface build() constructs, the one between the cladding    *)
(* and the first layer included, is the rotated construction iff one of    *)
(* its two layers has angle # 0.                                           *)
C7_RotatedIffAngle ==
    builds > 0 =>
        \A k \in 1..Len(last.s_mat_list) :
            k % 2 = 1 =>
                ((last.s_mat_list[k].kind = "star") <=>
                 (heap[Upstream(k)].angle # 0 \/ heap[Downstream(k)].angle # 0))

\* the transforms a layer's symmetry state asks for, in pipeline order
ExpectedOps(layer) ==
    (IF layer.mirror_bool THEN <<"mirror">> ELSE <<>>)
    \o (IF layer.flip_bool THEN <<"flip">> ELSE <<>>)
    \o (IF layer.angle # 0 THEN <<"rot">> ELSE <<>>)

(* C8: each local matrix create_propagator returns has had mirror, flip,   *)
(* rotate applied in that order, mirror iff the mirror flag, flip iff the  *)
(* flip flag, rotate (by the layer's angle) iff angle # 0; otherwise no    *)
(* transform at all.                                                       *)
C8_SymmetryOrder ==
    builds > 0 =>
        \A k \in 1..Len(last.s_mat_list) :
            LET m == last.s_mat_list[k] IN
            IsPropagator(m) =>
                /\ [j \in 1..Len(m.ops) |-> m.ops[j].op] = ExpectedOps(heap[m.layer])
                /\ \A j \in 1..Len(m.ops) :
                       m.ops[j].op = "rot" => m.ops[j].angle = heap[m.layer].angle

W_C8 ==
    /\ builds = 1
    /\ last.exc = "none"
    /\ \E k \in 1..Len(last.s_mat_list) :
           /\ last.s_mat_list[k].kind = "propagator"
           /\ Len(last.s_mat_list[k].ops) = 3
    /\ \E k \in 1..Len(last.s_mat_list) :
           /\ last.s_mat_list[k].kind = "meta"
           /\ last.s_mat_list[k].ops = <<>>

(* C9: in every build() call on a Stack of NonMetaLayers and MetaLayers,   *)
(* a repeated call included, create_propagator is called exactly once for  *)
(* each of the n >= 1 user layers and never for a pseudo-layer.            *)
C9_PropagatorPerUserLayer ==
    (builds > 0 /\ Len(orig) >= 1 /\ \A i \in UserRefs : IsVariant(heap[i])) =>
        /\ last.prop_calls = [i \in 1..Len(orig) |-> i]
        /\ \A k \in 1..Len(last.prop_calls) : ~IsPseudo(heap[last.prop_calls[k]])

\* the indices layer r contributes to the interface matrix m
ContributedBy(m, r) == IF m.l_1 = r THEN m.n1 ELSE m.n2

(* C10: for every consecutive pair (current, next) the plain interface and *)
(* the rotated one are oriented alike: the layer in the n1 role of the     *)
(* plain matrix is the layer in the n1 role of the composite, and each     *)
(* layer contributes the same indices to both.                             *)
C10_SameOrientation ==
    stack # NoStack =>
        \A i \in 1..(Len(WorkList) - 1) :
            LET current == WorkList[i]
                next == WorkList[i + 1]
                plain == create_interface(stack, heap, current, next)
                rot == create_interface_rot(stack, heap, current, next)
            IN  (plain.exc = "none" /\ rot.exc = "none") =>
                    /\ plain.val.l_1 \in {rot.val.front.l_1, rot.val.back.l_1}
                    /\ plain.val.l_2 \in {rot.val.front.l_2, rot.val.back.l_2}
                    /\ ContributedBy(plain.val, current) = ContributedBy(rot.val.front, current)
                    /\ ContributedBy(plain.val, next) = ContributedBy(rot.val.back, next)

====
